---- MODULE Spec2Model ----
(***************************************************************************)
(* gisard/modelbase: a generic repository (modelBase[K, T]) over a gorm    *)
(* query builder.  The repository holds no state of its own; the state is  *)
(* the table behind the executor.  Every operation is one action: it draws *)
(* its inputs, issues the executor calls the Go code issues, and records   *)
(* what it returned.                                                       *)
(*                                                                         *)
(* Two implementations of the repository are in the source tree.  The one  *)
(* in src/unnamed/part_001 implements the interface of src/interface.go    *)
(* (ListOpt with Apply/IsCountOpt); its operations keep their Go names.    *)
(* The one in src/modelbase.go differs in InsertBatch, Upsert and Get; its *)
(* operations carry the suffix _modelbase (InsertBatch keeps its name).    *)
(*                                                                         *)
(* Rows have a primary key id and one plain column age.  0 is Go's zero    *)
(* value of either; primary keys of stored rows are drawn from 1..MaxKey.  *)
(* Page numbers and sizes stay far below the width of Go's int, so         *)
(* (pageNo - 1) * pageSize is computed without wrap-around.                *)
(*                                                                         *)
(* Spec runs the operations one call at a time.  SpecUpsert runs Upsert    *)
(* from several goroutines at once, one executor statement per step.       *)
(***************************************************************************)
EXTENDS Integers, Sequences, FiniteSets

\* ---------------------------------------------------------------- bounds
MaxKey == 2
MaxVal == 1
MaxBatch == 2
MaxOpts == 3
MaxPageNo == 2
MaxPageSize == 2
MaxLen == 3
MaxCallers == 3

\* ------------------------------------------------------------- consts.go
ASC == 0
DESC == 1
NoLock == 0
IS == 1
IX == 2

Sorts == {ASC, DESC}
Locks == {NoLock, IS, IX}

\* Lock.ToString
ToString(l) ==
    CASE l = IS -> "SHARE"
      [] l = IX -> "UPDATE"
      [] OTHER -> ""

\* ------------------------------------------------------------------ rows
Keys == 1..MaxKey
Vals == 0..MaxVal
Rows == [id : Keys, age : Vals]
SortFields == {"id", "age"}

\* `var t1 T`: the zero value of the row type
ZeroRow == [id |-> 0, age |-> 0]

\* DataObjecter.GetID
GetID(t) == t.id

\* ---------------------------------------------------------------- errors
ErrNil == "nil"
ErrRecordNotFound == "record not found"
ErrDuplicate == "Error 1062: Duplicate entry"
ErrExecutor == "executor error"
\* A failure that is no uniqueness conflict and whose message, as the server
\* worded it, holds the words "Duplicate entry" (a quoted value, a name, the
\* text a trigger signals).
ErrExecutorQuoting == "executor error quoting 'Duplicate entry'"

\* errors.WithStack keeps nil nil and keeps the kind of a non-nil error
WithStack(err) == err

\* errors.Is(err, gorm.ErrRecordNotFound)
IsRecordNotFound(err) == err = ErrRecordNotFound

\* strings.Contains(err.Error(), "Duplicate entry")
ContainsDuplicateEntry(err) == err \in {ErrDuplicate, ErrExecutorQuoting}

\* ------------------------------------------------- the gorm query builder
\* A filter `field` = ? or `field` IN (?) with its argument values.
Preds == {[field |-> "id", values |-> {k}] : k \in Keys}
             \cup {[field |-> "age", values |-> {v}] : v \in Vals}

IdIn(ids) == [field |-> "id", values |-> ids]

\* m.db.WithContext(ctx): a fresh statement with no clause
NewDB == [where |-> <<>>, orders |-> <<>>, limit |-> 0, offset |-> 0,
          locking |-> <<>>]

\* A mutation of Where: the new condition replaces the earlier ones.
WhereOverwrite(db, p) == [db EXCEPT !.where = <<p>>]

\* db.Where: the condition is added to the conditions already there
Where(db, p) == [db EXCEPT !.where = Append(@, p)]

\* db.Order: one more ORDER BY term, after the terms already there
Order(db, field, desc) ==
    [db EXCEPT !.orders = Append(@, [sortField |-> field, desc |-> desc])]

\* db.Offset: clause.Limit{Offset: o} merged into the LIMIT clause
Offset(db, o) ==
    [db EXCEPT !.offset = IF o = 0 /\ db.offset > 0 THEN db.offset
                          ELSE IF o < 0 THEN 0 ELSE o]

\* db.Limit: clause.Limit{Limit: l} merged into the LIMIT clause
Limit(db, l) ==
    [db EXCEPT !.limit = IF l = 0 /\ db.limit # 0 THEN db.limit ELSE l]

\* db.Clauses(clause.Locking{Strength: s}): a FOR clause of strength s
Clauses(db, strength) == [db EXCEPT !.locking = <<strength>>]

\* ------------------------------------------------------------ the executor
Matches(r, p) == r[p.field] \in p.values

Matching(t, db) ==
    {r \in t : \A i \in DOMAIN db.where : Matches(r, db.where[i])}

\* A FOR clause with an empty strength is not a statement the server accepts.
Malformed(db) == db.locking = <<"">>

RECURSIVE Cmp(_, _, _)
Cmp(a, b, orders) ==
    IF orders = <<>> THEN 0
    ELSE LET o == Head(orders)
             x == a[o.sortField]
             y == b[o.sortField]
         IN  IF x = y THEN Cmp(a, b, Tail(orders))
             ELSE IF (x < y) = (~o.desc) THEN -1 ELSE 1

Perms(S) ==
    {s \in [1..Cardinality(S) -> S] :
        \A i, j \in 1..Cardinality(S) : i # j => s[i] # s[j]}

\* The orders in which the server may return the rows S under ORDER BY orders:
\* rows that the terms do not separate come in any order.
Orderings(S, orders) ==
    {s \in Perms(S) :
        \A i, j \in 1..Cardinality(S) : i < j => Cmp(s[i], s[j], orders) <= 0}

MinOf(a, b) == IF a < b THEN a ELSE b

\* LIMIT l OFFSET o; the builder writes LIMIT only for l > 0 and OFFSET only
\* for o > 0.
Window(s, limit, offset) ==
    LET from == IF offset > 0 THEN offset ELSE 0
        upto == IF limit > 0 THEN MinOf(Len(s), from + limit) ELSE Len(s)
    IN  SubSeq(s, from + 1, upto)

\* db.Find(&ts): every result the statement may produce
Find(t, db, fault) ==
    IF fault \/ Malformed(db)
    THEN {[rows |-> <<>>, err |-> ErrExecutor]}
    ELSE {[rows |-> Window(s, db.limit, db.offset), err |-> ErrNil] :
             s \in Orderings(Matching(t, db), db.orders)}

\* db.First(&t): the matching row of least primary key, LIMIT 1
First(t, db, fault) ==
    IF fault \/ Malformed(db) THEN [row |-> ZeroRow, err |-> ErrExecutor]
    ELSE LET m == Matching(t, db)
         IN  IF m = {} THEN [row |-> ZeroRow, err |-> ErrRecordNotFound]
             ELSE [row |-> CHOOSE r \in m : \A q \in m : r.id <= q.id,
                   err |-> ErrNil]

\* db.Count(&count): ORDER BY is dropped, LIMIT/OFFSET stay in the statement,
\* so an OFFSET skips the one row that carries the count.
CountRows(t, db, fault) ==
    IF fault \/ Malformed(db) THEN [count |-> 0, err |-> ErrExecutor]
    ELSE [count |-> IF db.offset > 0 THEN 0 ELSE Cardinality(Matching(t, db)),
          err |-> ErrNil]

HasDuplicateKey(t, ts) ==
    \/ \E i \in DOMAIN ts : \E r \in t : r.id = ts[i].id
    \/ \E i, j \in DOMAIN ts : i # j /\ ts[i].id = ts[j].id

\* db.Create: one INSERT statement with every row; a key already there fails
\* the whole statement
Create(t, ts, fault) ==
    IF fault THEN [table |-> t, err |-> ErrExecutor]
    ELSE IF HasDuplicateKey(t, ts) THEN [table |-> t, err |-> ErrDuplicate]
    ELSE [table |-> t \cup {ts[i] : i \in DOMAIN ts}, err |-> ErrNil]

\* db.Updates(t): UPDATE ... SET the non-zero columns WHERE id = t.id; with
\* no non-zero column no statement is issued
Updates(t, row, fault) ==
    IF row.age = 0 THEN [table |-> t, err |-> ErrNil, issued |-> FALSE]
    ELSE IF fault THEN [table |-> t, err |-> ErrExecutor, issued |-> TRUE]
    ELSE [table |-> {IF r.id = row.id THEN [r EXCEPT !.age = row.age] ELSE r :
                        r \in t},
          err |-> ErrNil, issued |-> TRUE]

\* db.Save(t): UPDATE of every column WHERE id = t.id, and an INSERT when no
\* row has that key
Save(t, row, fault) ==
    IF fault THEN [table |-> t, err |-> ErrExecutor]
    ELSE [table |-> {r \in t : r.id # row.id} \cup {row}, err |-> ErrNil]

\* db.Delete(&t): DELETE WHERE id = t.id
DeleteRow(t, row, fault) ==
    IF fault THEN [table |-> t, err |-> ErrExecutor]
    ELSE [table |-> {r \in t : r.id # row.id}, err |-> ErrNil]

\* The statements an operation sent to the executor.
Stmt(v, d, ts) == [verb |-> v, db |-> d, rows |-> ts]

\* ----------------------------------------------------------------- state
VARIABLES table, before, op, arg, ret, calls, upserts

vars == <<table, before, op, arg, ret, calls, upserts>>

\* The goroutines that may call Upsert at the same time, and what each holds
\* between two executor calls: its position, its row, the error it returned.
Callers == 1..MaxCallers

NotCalled == [pc |-> "idle", impl |-> "none", t |-> ZeroRow, err |-> ErrNil]

Init ==
    /\ upserts = [p \in Callers |-> NotCalled]
    /\ table = {}
    /\ before = {}
    /\ op = "idle"
    /\ arg = [fault |-> FALSE]
    /\ ret = [err |-> ErrNil]
    /\ calls = <<>>

\* No call is in progress: the repository keeps nothing between calls.
Idle == op = "idle"

\* An operation returned r after sending the statements c and leaving the
\* table as t.
Return(name, a, r, c, t) ==
    /\ op' = name
    /\ arg' = a
    /\ ret' = r
    /\ calls' = c
    /\ before' = table
    /\ table' = t
    /\ upserts' = upserts

Batches == UNION {[1..n -> Rows] : n \in 0..MaxBatch}

\* ------------------------------------------------- writes (part_001, modelbase.go)
\* A mutation of Insert: the empty batch is sent to the executor as well.
InsertUnguarded(ts, fault) ==
    LET c == Create(table, ts, fault)
    IN  Return("Insert", [ts |-> ts, fault |-> fault],
               [err |-> WithStack(c.err)],
               <<Stmt("INSERT", NewDB, ts)>>, c.table)

\* modelBase.Insert (part_001)
Insert(ts, fault) ==
    IF Len(ts) = 0
    THEN Return("Insert", [ts |-> ts, fault |-> fault], [err |-> ErrNil],
                <<>>, table)
    ELSE LET c == Create(table, ts, fault)
         IN  Return("Insert", [ts |-> ts, fault |-> fault],
                    [err |-> WithStack(c.err)],
                    <<Stmt("INSERT", NewDB, ts)>>, c.table)

\* modelBase.InsertBatch (modelbase.go)
InsertBatch(ts, fault) ==
    IF Len(ts) = 0
    THEN Return("InsertBatch", [ts |-> ts, fault |-> fault], [err |-> ErrNil],
                <<>>, table)
    ELSE LET c == Create(table, ts, fault)
         IN  Return("InsertBatch", [ts |-> ts, fault |-> fault],
                    [err |-> WithStack(c.err)],
                    <<Stmt("INSERT", NewDB, ts)>>, c.table)

\* modelBase.Upsert (part_001): db.Save
Upsert(t, fault) ==
    LET s == Save(table, t, fault)
    IN  Return("Upsert", [t |-> t, fault |-> fault],
               [err |-> WithStack(s.err)],
               <<Stmt("SAVE", NewDB, <<t>>)>>, s.table)

\* modelBase.Upsert (modelbase.go): db.Create, and db.Updates when the error
\* text names a duplicate entry.  A failing db.Create reports the error the
\* executor chose; quoting tells whether its text holds "Duplicate entry".
Upsert_modelbase(t, fault, quoting, fault2) ==
    LET c0 == Create(table, <<t>>, fault)
        c == IF fault /\ quoting THEN [c0 EXCEPT !.err = ErrExecutorQuoting]
             ELSE c0
        dup == c.err # ErrNil /\ ContainsDuplicateEntry(c.err)
        u == Updates(c.table, t, fault2)
    IN  Return("Upsert_modelbase",
               [t |-> t, fault |-> fault, quoting |-> quoting,
                fault2 |-> fault2],
               [err |-> WithStack(IF dup THEN u.err ELSE c.err)],
               <<Stmt("INSERT", NewDB, <<t>>)>>
                   \o (IF dup /\ u.issued
                       THEN <<Stmt("UPDATE", NewDB, <<t>>)>> ELSE <<>>),
               IF dup THEN u.table ELSE c.table)

\* modelBase.Update
Update(t, fault) ==
    LET u == Updates(table, t, fault)
    IN  Return("Update", [t |-> t, fault |-> fault],
               [err |-> WithStack(u.err)],
               IF u.issued THEN <<Stmt("UPDATE", NewDB, <<t>>)>> ELSE <<>>,
               u.table)

\* modelBase.Delete
Delete(t, fault) ==
    LET d == DeleteRow(table, t, fault)
    IN  Return("Delete", [t |-> t, fault |-> fault],
               [err |-> WithStack(d.err)],
               <<Stmt("DELETE", NewDB, <<t>>)>>, d.table)

\* ------------------------------------------------------------ point lookups
\* The Get family of part_001: a failed First returns the zero row, and no
\* error when the failure is "record not found".
Normalize(f) ==
    IF f.err # ErrNil
    THEN IF IsRecordNotFound(f.err) THEN [row |-> ZeroRow, err |-> ErrNil]
         ELSE [row |-> ZeroRow, err |-> WithStack(f.err)]
    ELSE [row |-> f.row, err |-> ErrNil]

\* modelBase.Get (part_001)
GetResult(t, id, fault) ==
    Normalize(First(t, Where(NewDB, IdIn({id})), fault))

\* modelBase.Get (modelbase.go): the error of First, whatever it is
GetResult_modelbase(t, id, fault) ==
    LET f == First(t, Where(NewDB, IdIn({id})), fault)
    IN  [row |-> f.row, err |-> WithStack(f.err)]

\* modelBase.GetWithLock (part_001)
GetWithLockResult(t, lock, id, fault) ==
    Normalize(First(t, Where(Clauses(NewDB, ToString(lock)), IdIn({id})), fault))

\* modelBase.GetBy (part_001)
GetByResult(t, where, fault) ==
    Normalize(First(t, Where(NewDB, where), fault))

\* modelBase.GetWithLockBy (part_001)
GetWithLockByResult(t, lock, where, fault) ==
    Normalize(First(t, Where(Clauses(NewDB, ToString(lock)), where), fault))

\* modelBase.Exist (part_001): decided by the error GetBy returns
ExistResult(t, where, fault) ==
    LET g == GetByResult(t, where, fault)
    IN  IF g.err # ErrNil
        THEN IF IsRecordNotFound(g.err) THEN [ok |-> FALSE, err |-> ErrNil]
             ELSE [ok |-> FALSE, err |-> WithStack(g.err)]
        ELSE [ok |-> TRUE, err |-> ErrNil]

Get(id, fault) ==
    Return("Get", [id |-> id, fault |-> fault], GetResult(table, id, fault),
           <<Stmt("SELECT", Where(NewDB, IdIn({id})), <<>>)>>, table)

Get_modelbase(id, fault) ==
    Return("Get_modelbase", [id |-> id, fault |-> fault],
           GetResult_modelbase(table, id, fault),
           <<Stmt("SELECT", Where(NewDB, IdIn({id})), <<>>)>>, table)

GetWithLock(lock, id, fault) ==
    Return("GetWithLock", [lock |-> lock, id |-> id, fault |-> fault],
           GetWithLockResult(table, lock, id, fault),
           <<Stmt("SELECT", Where(Clauses(NewDB, ToString(lock)), IdIn({id})),
                  <<>>)>>,
           table)

GetBy(where, fault) ==
    Return("GetBy", [where |-> where, fault |-> fault],
           GetByResult(table, where, fault),
           <<Stmt("SELECT", Where(NewDB, where), <<>>)>>, table)

GetWithLockBy(lock, where, fault) ==
    Return("GetWithLockBy", [lock |-> lock, where |-> where, fault |-> fault],
           GetWithLockByResult(table, lock, where, fault),
           <<Stmt("SELECT", Where(Clauses(NewDB, ToString(lock)), where),
                  <<>>)>>,
           table)

Exist(where, fault) ==
    Return("Exist", [where |-> where, fault |-> fault],
           ExistResult(table, where, fault),
           <<Stmt("SELECT", Where(NewDB, where), <<>>)>>, table)

\* ----------------------------------------------- query options (interface.go)
\* PageOpt
PageOpt(pageNo, pageSize) ==
    [kind |-> "page", offset |-> (pageNo - 1) * pageSize, limit |-> pageSize]

\* SortOpt
SortOpt(sortField, sort) ==
    [kind |-> "sort", sortField |-> sortField, sort |-> sort]

\* WhereOpt
WhereOpt(where) == [kind |-> "where", where |-> where]

\* pageOpt.Apply, sortOpt.Apply, whereOpt.Apply
Apply(opt, db) ==
    CASE opt.kind = "page" -> Limit(Offset(db, opt.offset), opt.limit)
      [] opt.kind = "sort" -> Order(db, opt.sortField, opt.sort = DESC)
      [] opt.kind = "where" -> Where(db, opt.where)

\* pageOpt.IsCountOpt, sortOpt.IsCountOpt, whereOpt.IsCountOpt
IsCountOpt(opt) == opt.kind = "where"

PageNos == 1..MaxPageNo
PageSizes == 0..MaxPageSize

ListOpts ==
    {WhereOpt(p) : p \in Preds}
        \cup {SortOpt(f, s) : f \in SortFields, s \in Sorts}
        \cup {PageOpt(n, z) : n \in PageNos, z \in PageSizes}

OptLists == UNION {[1..n -> ListOpts] : n \in 0..MaxOpts}

\* ------------------------------------------------------- listing (part_001)
\* `for _, opt := range opts { db = opt.Apply(db) }`
RECURSIVE ApplyAll(_, _)
ApplyAll(db, opts) ==
    IF opts = <<>> THEN db
    ELSE ApplyAll(Apply(Head(opts), db), Tail(opts))

\* A mutation of ApplyCountOpts: every option is applied.
ApplyCountOptsUnfiltered(db, opts) == ApplyAll(db, opts)

\* `for _, opt := range opts { if !opt.IsCountOpt() { continue }; ... }`
RECURSIVE ApplyCountOpts(_, _)
ApplyCountOpts(db, opts) ==
    IF opts = <<>> THEN db
    ELSE IF ~IsCountOpt(Head(opts)) THEN ApplyCountOpts(db, Tail(opts))
    ELSE ApplyCountOpts(Apply(Head(opts), db), Tail(opts))

\* modelBase.List: every result the call may return
ListResult(t, opts, fault) ==
    {[rows |-> f.rows, err |-> WithStack(f.err)] :
        f \in Find(t, ApplyAll(NewDB, opts), fault)}

\* modelBase.Count
CountResult(t, opts, fault) ==
    LET c == CountRows(t, ApplyCountOpts(NewDB, opts), fault)
    IN  [count |-> c.count, err |-> WithStack(c.err)]

\* A mutation of Put: a key already in the map keeps its row.
PutIfAbsent(m, k, v) ==
    [x \in DOMAIN m \cup {k} |-> IF x \in DOMAIN m THEN m[x] ELSE v]

\* `tMap[k] = v`
Put(m, k, v) == [x \in DOMAIN m \cup {k} |-> IF x = k THEN v ELSE m[x]]

\* `for _, t := range ts { tMap[t.GetID()] = t }`
RECURSIVE IndexLoop(_, _)
IndexLoop(tMap, ts) ==
    IF ts = <<>> THEN tMap
    ELSE IndexLoop(Put(tMap, GetID(Head(ts)), Head(ts)), Tail(ts))

\* make(map[K]T)
EmptyMap == [x \in {} |-> ZeroRow]

\* modelBase.ListMap, from what List returned
ListMapFrom(l) ==
    IF l.err # ErrNil
    THEN [rows |-> l.rows, map |-> EmptyMap, isNil |-> TRUE, err |-> l.err]
    ELSE [rows |-> l.rows, map |-> IndexLoop(EmptyMap, l.rows),
          isNil |-> FALSE, err |-> ErrNil]

\* modelBase.ListByIDs, from what Find returned
ListByIDsFrom(f) ==
    IF f.err # ErrNil THEN [rows |-> <<>>, err |-> WithStack(f.err)]
    ELSE [rows |-> f.rows, err |-> ErrNil]

\* modelBase.ListMapByIDs, from what ListByIDs returned
ListMapByIDsFrom(l) ==
    IF l.err # ErrNil
    THEN [rows |-> l.rows, map |-> EmptyMap, isNil |-> TRUE, err |-> l.err]
    ELSE IF Len(l.rows) = 0
    THEN [rows |-> l.rows, map |-> EmptyMap, isNil |-> TRUE, err |-> ErrNil]
    ELSE [rows |-> l.rows, map |-> IndexLoop(EmptyMap, l.rows),
          isNil |-> FALSE, err |-> ErrNil]

List(opts, fault) ==
    \E l \in ListResult(table, opts, fault) :
        Return("List", [opts |-> opts, fault |-> fault], l,
               <<Stmt("SELECT", ApplyAll(NewDB, opts), <<>>)>>, table)

ListMap(opts, fault) ==
    \E l \in ListResult(table, opts, fault) :
        Return("ListMap", [opts |-> opts, fault |-> fault], ListMapFrom(l),
               <<Stmt("SELECT", ApplyAll(NewDB, opts), <<>>)>>, table)

ListByIDs(ids, fault) ==
    \E f \in Find(table, Where(NewDB, IdIn(ids)), fault) :
        Return("ListByIDs", [ids |-> ids, fault |-> fault], ListByIDsFrom(f),
               <<Stmt("SELECT", Where(NewDB, IdIn(ids)), <<>>)>>, table)

ListMapByIDs(ids, fault) ==
    \E f \in Find(table, Where(NewDB, IdIn(ids)), fault) :
        Return("ListMapByIDs", [ids |-> ids, fault |-> fault],
               ListMapByIDsFrom(ListByIDsFrom(f)),
               <<Stmt("SELECT", Where(NewDB, IdIn(ids)), <<>>)>>, table)

Count(opts, fault) ==
    Return("Count", [opts |-> opts, fault |-> fault],
           CountResult(table, opts, fault),
           <<Stmt("COUNT", ApplyCountOpts(NewDB, opts), <<>>)>>, table)

\* --------------------------------------------------------- specification
\* The caller has taken the result; the options and the result of the call
\* are dropped and the next call starts from the table alone.
Discard ==
    /\ ~Idle
    /\ op' = "idle"
    /\ arg' = [fault |-> FALSE]
    /\ ret' = [err |-> ErrNil]
    /\ calls' = <<>>
    /\ before' = table
    /\ table' = table
    /\ upserts' = upserts

Next ==
    \/ Idle /\ \E ts \in Batches, fault \in BOOLEAN : Insert(ts, fault)
    \/ Idle /\ \E ts \in Batches, fault \in BOOLEAN : InsertBatch(ts, fault)
    \/ Idle /\ \E t \in Rows, fault \in BOOLEAN : Upsert(t, fault)
    \/ Idle /\ \E t \in Rows, fault, quoting, fault2 \in BOOLEAN :
           Upsert_modelbase(t, fault, quoting, fault2)
    \/ Idle /\ \E t \in Rows, fault \in BOOLEAN : Update(t, fault)
    \/ Idle /\ \E t \in Rows, fault \in BOOLEAN : Delete(t, fault)
    \/ Idle /\ \E id \in Keys, fault \in BOOLEAN : Get(id, fault)
    \/ Idle /\ \E id \in Keys, fault \in BOOLEAN : Get_modelbase(id, fault)
    \/ Idle /\ \E lock \in Locks, id \in Keys, fault \in BOOLEAN :
           GetWithLock(lock, id, fault)
    \/ Idle /\ \E where \in Preds, fault \in BOOLEAN : GetBy(where, fault)
    \/ Idle /\ \E lock \in Locks, where \in Preds, fault \in BOOLEAN :
           GetWithLockBy(lock, where, fault)
    \/ Idle /\ \E where \in Preds, fault \in BOOLEAN : Exist(where, fault)
    \/ Idle /\ \E opts \in OptLists, fault \in BOOLEAN : List(opts, fault)
    \/ Idle /\ \E opts \in OptLists, fault \in BOOLEAN : ListMap(opts, fault)
    \/ Idle /\ \E ids \in SUBSET Keys, fault \in BOOLEAN : ListByIDs(ids, fault)
    \/ Idle /\ \E ids \in SUBSET Keys, fault \in BOOLEAN : ListMapByIDs(ids, fault)
    \/ Idle /\ \E opts \in OptLists, fault \in BOOLEAN : Count(opts, fault)
    \/ Discard

Spec == Init /\ [][Next]_vars

\* The indexing of ListMap and ListMapByIDs over every result sequence a query
\* may hand back, repeated primary keys included.
ResultSeqs == UNION {[1..n -> Rows] : n \in 0..MaxLen}

ListMapOver(ts) ==
    Return("ListMap", [opts |-> <<>>, fault |-> FALSE],
           ListMapFrom([rows |-> ts, err |-> ErrNil]),
           <<Stmt("SELECT", NewDB, <<>>)>>, table)

ListMapByIDsOver(ts) ==
    Return("ListMapByIDs", [ids |-> Keys, fault |-> FALSE],
           ListMapByIDsFrom(ListByIDsFrom([rows |-> ts, err |-> ErrNil])),
           <<Stmt("SELECT", Where(NewDB, IdIn(Keys)), <<>>)>>, table)

NextIndex ==
    \/ Idle /\ \E ts \in ResultSeqs : ListMapOver(ts)
    \/ Idle /\ \E ts \in ResultSeqs : ListMapByIDsOver(ts)
    \/ Discard

SpecIndex == Init /\ [][NextIndex]_vars

\* ------------------------------------------------ Upsert called concurrently
\* Callers run Upsert for one primary key at the same time.  Each executor
\* call is one statement, which the server runs atomically; between two
\* statements of one call the statements of the other calls may run.  No
\* statement fails but for a uniqueness conflict.
Tables == {T \in SUBSET Rows : \A r, q \in T : r.id = q.id => r = q}

Impls == {"modelbase.go", "part_001"}

InitUpsert ==
    /\ upserts = [p \in Callers |-> NotCalled]
    /\ table \in Tables
    /\ before = table
    /\ op = "idle"
    /\ arg = [fault |-> FALSE]
    /\ ret = [err |-> ErrNil]
    /\ calls = <<>>

Started == {p \in Callers : upserts[p].pc # "idle"}

Returned == {p \in Callers : upserts[p].pc = "done"}

\* The caller moves on to pc, with the table as the statement left it.
Step(p, pc, err, t) ==
    /\ upserts' = [upserts EXCEPT ![p].pc = pc, ![p].err = err]
    /\ table' = t
    /\ UNCHANGED <<before, op, arg, ret, calls>>

\* A caller enters Upsert(ctx, t) of the implementation the program is built
\* with, for the key the other callers use.
CallUpsert(p, impl, t) ==
    /\ upserts[p].pc = "idle"
    /\ \A q \in Started : upserts[q].impl = impl /\ upserts[q].t.id = t.id
    /\ upserts' = [upserts EXCEPT ![p] =
           [pc |-> IF impl = "modelbase.go" THEN "Create" ELSE "SaveUpdate",
            impl |-> impl, t |-> t, err |-> ErrNil]]
    /\ UNCHANGED <<table, before, op, arg, ret, calls>>

\* modelbase.go Upsert, the insert attempt: `err := db.Create(t).Error`
UpsertCreate(p) ==
    /\ upserts[p].pc = "Create"
    /\ LET c == Create(table, <<upserts[p].t>>, FALSE)
       IN  IF c.err # ErrNil /\ ContainsDuplicateEntry(c.err)
           THEN Step(p, "Updates", c.err, c.table)
           ELSE Step(p, "done", WithStack(c.err), c.table)

\* modelbase.go Upsert, the fallback: `err = db.Updates(t).Error`
UpsertUpdates(p) ==
    /\ upserts[p].pc = "Updates"
    /\ LET u == Updates(table, upserts[p].t, FALSE)
       IN  Step(p, "done", WithStack(u.err), u.table)

\* db.Save(t) of gorm v1.23.4 for a row with a primary key, first statement:
\* UPDATE of every column WHERE id = t.id.  Save returns when a row was
\* changed and goes on to look for the row when none was.
SaveUpdate(p) ==
    /\ upserts[p].pc = "SaveUpdate"
    /\ LET row == upserts[p].t
           hit == {r \in table : r.id = row.id /\ r # row}
       IN  IF hit # {}
           THEN Step(p, "done", ErrNil, (table \ hit) \cup {row})
           ELSE Step(p, "SaveFind", ErrNil, table)

\* db.Save(t), second statement: SELECT ... WHERE id = t.id LIMIT 1.  Save
\* returns when the row is there and goes on to insert it when it is not.
SaveFind(p) ==
    /\ upserts[p].pc = "SaveFind"
    /\ IF \E r \in table : r.id = upserts[p].t.id
       THEN Step(p, "done", ErrNil, table)
       ELSE Step(p, "SaveCreate", ErrNil, table)

\* db.Save(t), third statement: the INSERT of db.Create(t), whose error is
\* what Upsert of part_001 returns.
SaveCreate(p) ==
    /\ upserts[p].pc = "SaveCreate"
    /\ LET c == Create(table, <<upserts[p].t>>, FALSE)
       IN  Step(p, "done", WithStack(c.err), c.table)

NextUpsert ==
    \/ \E p \in Callers, impl \in Impls, t \in Rows : CallUpsert(p, impl, t)
    \/ \E p \in Callers : UpsertCreate(p)
    \/ \E p \in Callers : UpsertUpdates(p)
    \/ \E p \in Callers : SaveUpdate(p)
    \/ \E p \in Callers : SaveFind(p)
    \/ \E p \in Callers : SaveCreate(p)

SpecUpsert == InitUpsert /\ [][NextUpsert]_vars

\* ------------------------------------------------------------------ claims
\* The executor answered every call of the operation that last returned.
NoFault == ~arg.fault /\ (op = "Upsert_modelbase" => ~arg.fault2)

Range(s) == {s[i] : i \in DOMAIN s}

MaxOf(a, b) == IF a > b THEN a ELSE b

OptsOfKind(opts, kind) == {i \in DOMAIN opts : opts[i].kind = kind}

\* The rows of t that satisfy every filter option of opts.
Satisfying(t, opts) ==
    {r \in t : \A i \in OptsOfKind(opts, "where") : Matches(r, opts[i].where)}

\* The ORDER BY terms opts declares, in the order supplied.
RECURSIVE SortTerms(_)
SortTerms(opts) ==
    IF opts = <<>> THEN <<>>
    ELSE IF Head(opts).kind = "sort"
    THEN <<[sortField |-> Head(opts).sortField, desc |-> Head(opts).sort = DESC]>>
             \o SortTerms(Tail(opts))
    ELSE SortTerms(Tail(opts))

\* C1: Exist(predicate) returns (true, nil) exactly when GetBy with the same
\* predicate on the same table returns a non-zero row, and returns
\* (false, nil) when no row matches the predicate.
C1_ExistIffGetByFindsRow ==
    (op = "Exist" /\ NoFault) =>
        LET g == GetByResult(before, arg.where, FALSE)
        IN  /\ (ret = [ok |-> TRUE, err |-> ErrNil]) <=> (g.row # ZeroRow)
            /\ (\A r \in before : ~Matches(r, arg.where))
                   => ret = [ok |-> FALSE, err |-> ErrNil]

\* C2: Get(k) for a primary key k with no row returns the zero row and a nil
\* error and leaves the table unchanged, in either implementation of Get.
C2_GetOfMissingKeyIsZeroRowNoError ==
    (op \in {"Get", "Get_modelbase"} /\ NoFault
        /\ \A r \in before : r.id # arg.id)
    => (ret = [row |-> ZeroRow, err |-> ErrNil] /\ table = before)

\* The part of C2 that holds: Get of part_001 on a missing key.
GetOfMissingKey_part001 ==
    (op = "Get" /\ NoFault /\ \A r \in before : r.id # arg.id)
    => (ret = [row |-> ZeroRow, err |-> ErrNil] /\ table = before)

\* C3: after Upsert(r), fresh key or not and whatever the field values of r
\* (zero values included), the table holds exactly one row with r's key and
\* Get(r.id) returns r, in either implementation of Upsert.
C3_UpsertThenGetReturnsRow ==
    (op \in {"Upsert", "Upsert_modelbase"} /\ NoFault) =>
        /\ ret.err = ErrNil
        /\ Cardinality({r \in table : r.id = arg.t.id}) = 1
        /\ GetResult(table, arg.t.id, FALSE) = [row |-> arg.t, err |-> ErrNil]
        /\ \A r \in table : r.id # arg.t.id => r \in before

\* The part of C3 that holds: Upsert of part_001 (db.Save).
UpsertThenGet_part001 ==
    (op = "Upsert" /\ NoFault) =>
        /\ Cardinality({r \in table : r.id = arg.t.id}) = 1
        /\ GetResult(table, arg.t.id, FALSE) = [row |-> arg.t, err |-> ErrNil]

\* C4: Count(options) returns the number of rows satisfying the filter options
\* of the list, which is what Count returns for the list with its sort and
\* page options removed; the statement sent carries no ORDER BY, LIMIT or
\* OFFSET.
C4_CountSkipsSortAndPage ==
    (op = "Count" /\ NoFault) =>
        /\ ret.err = ErrNil
        /\ ret.count = Cardinality(Satisfying(before, arg.opts))
        /\ ret = CountResult(before, SelectSeq(arg.opts, IsCountOpt), FALSE)
        /\ calls[1].db.orders = <<>>
        /\ calls[1].db.limit = 0
        /\ calls[1].db.offset = 0

\* A Count over a filter, a sort and a page past the first, with rows to count.
C4_Witness ==
    /\ op = "Count"
    /\ NoFault
    /\ OptsOfKind(arg.opts, "where") # {}
    /\ OptsOfKind(arg.opts, "sort") # {}
    /\ \E i \in OptsOfKind(arg.opts, "page") : arg.opts[i].offset > 0
    /\ ret.count >= 1

\* The page option of a list with exactly one, as the builder takes it.
PageOf(opts) ==
    IF OptsOfKind(opts, "page") = {} THEN [offset |-> 0, limit |-> 0]
    ELSE LET i == CHOOSE i \in OptsOfKind(opts, "page") : TRUE
         IN  [offset |-> opts[i].offset, limit |-> opts[i].limit]

\* ts is the rows of S in an order the sort terms allow, cut to the window
\* that starts after the first offset rows and holds n rows.
IsWindowOf(ts, S, terms, offset, n) ==
    \E s \in Orderings(S, terms) : ts = SubSeq(s, offset + 1, offset + n)

\* C5: List with at most one filter, any sort options and at most one page
\* option returns the rows matching the filter, ordered by the sort terms in
\* the order supplied, without the first offset rows, and
\* min(limit, matching - offset) of them; without a page option all of them.
C5_ListFilterSortPage ==
    (op = "List" /\ NoFault
        /\ Cardinality(OptsOfKind(arg.opts, "where")) <= 1
        /\ Cardinality(OptsOfKind(arg.opts, "page")) <= 1)
    => LET m == Satisfying(before, arg.opts)
           page == PageOf(arg.opts)
           left == MaxOf(Cardinality(m) - page.offset, 0)
           n == IF OptsOfKind(arg.opts, "page") = {} THEN Cardinality(m)
                ELSE MinOf(page.limit, left)
       IN  /\ ret.err = ErrNil
           /\ Len(ret.rows) = n
           /\ IsWindowOf(ret.rows, m, SortTerms(arg.opts), page.offset, n)

\* What holds of List: C5 for a page size of at least 1, and every matching
\* row from the offset on for a page size of 0.
ListFilterSortPage_noLimitAtZero ==
    (op = "List" /\ NoFault
        /\ Cardinality(OptsOfKind(arg.opts, "where")) <= 1
        /\ Cardinality(OptsOfKind(arg.opts, "page")) <= 1)
    => LET m == Satisfying(before, arg.opts)
           page == PageOf(arg.opts)
           left == MaxOf(Cardinality(m) - page.offset, 0)
           n == IF page.limit = 0 THEN left ELSE MinOf(page.limit, left)
       IN  /\ ret.err = ErrNil
           /\ Len(ret.rows) = n
           /\ IsWindowOf(ret.rows, m, SortTerms(arg.opts), page.offset, n)

\* C6: Insert (InsertBatch) with no row returns success, sends nothing to the
\* executor and leaves the table unchanged; with one row or more it sends
\* exactly one statement, which carries all the rows.
C6_InsertOfNothingSendsNothing ==
    (op \in {"Insert", "InsertBatch"}) =>
        /\ Len(arg.ts) = 0 =>
               (ret.err = ErrNil /\ calls = <<>> /\ table = before)
        /\ Len(arg.ts) >= 1 =>
               /\ Len(calls) = 1
               /\ calls[1].verb = "INSERT"
               /\ calls[1].rows = arg.ts

\* An Insert of no row into a table that holds rows.
C6_Witness ==
    /\ op = "Insert"
    /\ arg.ts = <<>>
    /\ before # {}
    /\ ret.err = ErrNil

\* An InsertBatch of two rows in one statement.
C6_WitnessBatch ==
    /\ op = "InsertBatch"
    /\ Len(arg.ts) = 2
    /\ ret.err = ErrNil
    /\ Cardinality(table) = Cardinality(before) + 2

\* C7: the mapping ListMap and ListMapByIDs return has as keys exactly the
\* primary keys of the rows the query returned, and maps each key to the last
\* row of the sequence that carries it.
C7_MapKeysAreRowKeysLastRowWins ==
    (op \in {"ListMap", "ListMapByIDs"} /\ ret.err = ErrNil) =>
        /\ DOMAIN ret.map = {ret.rows[i].id : i \in DOMAIN ret.rows}
        /\ \A k \in DOMAIN ret.map :
               \E i \in DOMAIN ret.rows :
                   /\ ret.rows[i].id = k
                   /\ \A j \in DOMAIN ret.rows : j > i => ret.rows[j].id # k
                   /\ ret.map[k] = ret.rows[i]

\* A result that carries one primary key twice, with different rows.
C7_Witness ==
    /\ op \in {"ListMap", "ListMapByIDs"}
    /\ ret.err = ErrNil
    /\ \E i, j \in DOMAIN ret.rows :
           /\ i < j
           /\ ret.rows[i].id = ret.rows[j].id
           /\ ret.rows[i] # ret.rows[j]
    /\ Cardinality(DOMAIN ret.map) < Len(ret.rows)

\* Exactly two options, both filters.
TwoFilters ==
    /\ op \in {"List", "Count"}
    /\ NoFault
    /\ Len(arg.opts) = 2
    /\ OptsOfKind(arg.opts, "where") = {1, 2}

\* C8 as stated: of two filters the second overwrites the first, so List and
\* Count answer as with the second filter alone.
C8_SecondFilterOverwritesFirst ==
    TwoFilters =>
        LET second == {r \in before : Matches(r, arg.opts[2].where)}
        IN  /\ op = "List" => Range(ret.rows) = second
            /\ op = "Count" => ret.count = Cardinality(second)

\* C8 as amended: both filters stay in force, so List and Count answer with
\* the rows that satisfy the first filter and the second.
C8_BothFiltersApply ==
    TwoFilters =>
        LET both == {r \in before : /\ Matches(r, arg.opts[1].where)
                                    /\ Matches(r, arg.opts[2].where)}
        IN  /\ ret.err = ErrNil
            /\ calls[1].db.where = <<arg.opts[1].where, arg.opts[2].where>>
            /\ op = "List" => (Range(ret.rows) = both
                                  /\ Len(ret.rows) = Cardinality(both))
            /\ op = "Count" => ret.count = Cardinality(both)

\* A List with two filters where the second filter alone selects a row that
\* the first excludes.
C8_Witness ==
    /\ TwoFilters
    /\ op = "List"
    /\ \E r \in before : /\ Matches(r, arg.opts[2].where)
                         /\ ~Matches(r, arg.opts[1].where)
                         /\ r \notin Range(ret.rows)

\* page p+1 follows page p on the rows s: no row in both, none left out.
Consecutive(s, p, z) ==
    LET a == PageOpt(p, z)
        b == PageOpt(p + 1, z)
        pa == Window(s, a.limit, a.offset)
        pb == Window(s, b.limit, b.offset)
    IN  /\ Range(pa) \cap Range(pb) = {}
        /\ pa \o pb = SubSeq(s, a.offset + 1, MinOf(Len(s), a.offset + 2 * z))

\* C9: PageOpt(p, s) is the window offset (p - 1) * s, limit s; List with it
\* returns what List returns with that explicit pair; the offset is not
\* negative for p >= 1, s >= 0; and pages p and p + 1 of the same result
\* neither overlap nor leave a gap.
C9_PageOptWindow ==
    (op = "List" /\ NoFault /\ Len(arg.opts) = 1 /\ arg.opts[1].kind = "page")
    => \A p \in PageNos, z \in PageSizes :
           PageOpt(p, z) = arg.opts[1] =>
               /\ arg.opts[1].offset = (p - 1) * z
               /\ arg.opts[1].limit = z
               /\ arg.opts[1].offset >= 0
               /\ ret \in ListResult(before,
                      <<[kind |-> "page", offset |-> (p - 1) * z, limit |-> z]>>,
                      FALSE)
               /\ \A s \in Orderings(before, <<>>) :
                      ret.rows = Window(s, z, (p - 1) * z) => Consecutive(s, p, z)

\* What holds of PageOpt: C9 for a page size of at least 1.
PageOptWindow_positiveSize ==
    (op = "List" /\ NoFault /\ Len(arg.opts) = 1 /\ arg.opts[1].kind = "page")
    => \A p \in PageNos, z \in PageSizes \ {0} :
           PageOpt(p, z) = arg.opts[1] =>
               /\ arg.opts[1].offset = (p - 1) * z
               /\ arg.opts[1].limit = z
               /\ arg.opts[1].offset >= 0
               /\ \A s \in Orderings(before, <<>>) :
                      ret.rows = Window(s, z, (p - 1) * z) => Consecutive(s, p, z)

\* The locking clause the lock mode stands for; none for NoLock.
LockingOf(lock) ==
    CASE lock = IS -> <<"SHARE">>
      [] lock = IX -> <<"UPDATE">>
      [] OTHER -> <<>>

\* C10: GetWithLock and GetWithLockBy return what Get and GetBy return on the
\* same table for every lock mode, and the statement they send carries the
\* locking clause of the mode: SHARE, UPDATE, or none at all for NoLock.
C10_LockOnlySelectsLockingClause ==
    (op \in {"GetWithLock", "GetWithLockBy"} /\ NoFault) =>
        /\ op = "GetWithLock" => ret = GetResult(before, arg.id, FALSE)
        /\ op = "GetWithLockBy" => ret = GetByResult(before, arg.where, FALSE)
        /\ calls[1].db.locking = LockingOf(arg.lock)
        /\ table = before

\* What holds of the locked lookups: C10 for the modes IS and IX.
LockSelectsLockingClause_sharedOrExclusive ==
    (op \in {"GetWithLock", "GetWithLockBy"} /\ NoFault /\ arg.lock # NoLock)
    => /\ op = "GetWithLock" => ret = GetResult(before, arg.id, FALSE)
       /\ op = "GetWithLockBy" => ret = GetByResult(before, arg.where, FALSE)
       /\ calls[1].db.locking = LockingOf(arg.lock)
       /\ table = before

\* An error of the kind ExecutorError: neither "record not found" nor a
\* uniqueness conflict.
IsExecutorError(err) == err \in {ErrExecutor, ErrExecutorQuoting}

\* A call the operation sent to the executor failed with such an error:
\* Upsert of modelbase.go may fail in its insert attempt or in its fallback
\* update, every other operation in the one statement it sends.
ExecutorCallFailed ==
    \/ /\ op = "Upsert_modelbase"
       /\ arg.fault \/ (Len(calls) = 2 /\ arg.fault2)
    \/ /\ op \notin {"idle", "Upsert_modelbase"}
       /\ calls # <<>>
       /\ arg.fault \/ Malformed(calls[1].db)

\* What C11 asks of an operation whose executor call failed.
ErrorPropagated ==
    /\ IsExecutorError(ret.err)
    /\ op \in {"Get", "Get_modelbase", "GetWithLock", "GetBy", "GetWithLockBy"}
           => ret.row = ZeroRow
    /\ op = "Exist" => ret.ok = FALSE
    /\ (op = "Upsert_modelbase" /\ arg.fault) => Len(calls) = 1

\* C11: an operation whose executor call fails with an error that is neither
\* "record not found" nor, in Upsert's insert attempt, a uniqueness conflict
\* returns an error of that kind and never nil; the Get family returns the
\* zero row with it, Exist returns false with it, and Upsert sends no
\* fallback update.
C11_ExecutorErrorPropagates == ExecutorCallFailed => ErrorPropagated

\* What holds of C11: every failure but an insert failure of Upsert
\* (modelbase.go) whose text holds the words "Duplicate entry".
ExecutorErrorPropagates_unlessQuoting ==
    (ExecutorCallFailed /\ ~(op = "Upsert_modelbase" /\ arg.fault /\ arg.quoting))
    => ErrorPropagated

\* The failure C11 does not survive: the insert attempt failed, no row had
\* the key, and Upsert returned nil after its fallback update.
ExecutorErrorAbsorbed ==
    /\ op = "Upsert_modelbase" /\ arg.fault /\ arg.quoting
    /\ \A r \in before : r.id # arg.t.id
    /\ ret.err = ErrNil
    /\ table = before

\* The rows the table holds for the key the callers upsert.
RowsOfKey == {r \in table : \E p \in Started : r.id = upserts[p].t.id}

\* What C12 asks of a state in which callers have entered Upsert.
AllSucceedOneRow ==
    /\ \A p \in Returned : upserts[p].err = ErrNil
    /\ \A p \in Returned : Cardinality(RowsOfKey) = 1
    /\ Returned = Started => \E p \in Returned : RowsOfKey = {upserts[p].t}

\* C12: when two or more callers run Upsert for one primary key at the same
\* time, the insert attempt and the fallback being separate executor calls
\* and nothing else running, every call returns nil, no call has returned
\* while the table holds no row or two rows for the key, and once all have
\* returned the table holds one row for the key, the row of one of the calls.
C12_ConcurrentUpsertsAllSucceed ==
    Cardinality(Started) >= 2 => AllSucceedOneRow

\* What holds of C12 in both implementations: a call that returned nil left
\* one row for the key in the table.
ConcurrentUpserts_oneRowOnSuccess ==
    \A p \in Returned :
        upserts[p].err = ErrNil => Cardinality(RowsOfKey) = 1

\* What holds of C12 for Upsert of modelbase.go: every call returns nil, and
\* the row left is the row of one of the calls when every call writes a
\* non-zero age.
ConcurrentUpserts_modelbase ==
    (\A p \in Started : upserts[p].impl = "modelbase.go") =>
        /\ \A p \in Returned : upserts[p].err = ErrNil
        /\ (Returned = Started /\ Started # {}
               /\ \A p \in Started : upserts[p].t.age # 0)
           => \E p \in Returned : RowsOfKey = {upserts[p].t}

\* What holds of C12 for Upsert of part_001: once all have returned, the one
\* row of the key is the row of one of the calls.
ConcurrentUpserts_part001 ==
    (Started # {} /\ Returned = Started
        /\ \A p \in Started : upserts[p].impl = "part_001")
    => \E p \in Returned : RowsOfKey = {upserts[p].t}

\* A call that runs alone leaves what the one-step Upsert leaves.
UpsertAloneIsUpsert ==
    \A p \in Callers :
        (Started = {p} /\ Returned = {p}) =>
            IF upserts[p].impl = "part_001"
            THEN /\ table = Save(before, upserts[p].t, FALSE).table
                 /\ upserts[p].err = ErrNil
            ELSE LET c == Create(before, <<upserts[p].t>>, FALSE)
                 IN  table = IF c.err = ErrNil THEN c.table
                             ELSE Updates(before, upserts[p].t, FALSE).table

\* The race of Upsert in part_001: two calls for a key no row has, one of
\* which returned the uniqueness conflict of its INSERT.
SaveLostTheRace ==
    /\ Cardinality(Started) >= 2
    /\ \A r \in before : \A p \in Started : r.id # upserts[p].t.id
    /\ \E p \in Returned :
           upserts[p].impl = "part_001" /\ upserts[p].err = ErrDuplicate

\* The failure of Upsert in modelbase.go: all calls returned nil and the row
\* of the key is the row of none of them.
UpsertsWroteNothing ==
    /\ Cardinality(Started) >= 2 /\ Returned = Started
    /\ \A p \in Started :
           upserts[p].impl = "modelbase.go" /\ upserts[p].err = ErrNil
    /\ \A p \in Started : upserts[p].t \notin table

====
